---- MODULE Spec2Model ----
(***************************************************************************)
(* A model of coliru, a dotfile installer: the tag rule evaluator          *)
(* (manifest.rs), the staging path resolver and the remote transport       *)
(* (ssh.rs), the local executors (local.rs) and the step orchestrator      *)
(* (core.rs).                                                              *)
(*                                                                         *)
(* Strings are sequences of characters.  A character is a one-character    *)
(* TLA+ string; the names "home" and "root" stand for the four characters  *)
(* of those directory names, which the code never takes apart.             *)
(***************************************************************************)
EXTENDS Integers, Sequences, FiniteSets, TLC

VARIABLES
    rules,      \* tags_match: the tag rules, a sequence of strings
    tags,       \* tags_match: the tags of a step, a sequence of strings
    matched,    \* tags_match: the value returned, or Unset before the call
    dst,        \* stage_file: the destination, a string
    staging_dir,\* stage_file: the staging directory, a string
    staged,     \* stage_file: Unset, or the outcome of the resolution: whether
                \* it failed and the path handed to copy_file
    resolved,   \* resolve_path: Unset, or the directory it was called with
                \* and the path it returned
    manifest,   \* install_manifest: the steps of the manifest
    tag_rules,  \* install_manifest: the tag rules
    host,       \* install_manifest: the remote host, "" for a local run
    dry_run,    \* install_manifest: the dry-run flag
    copy,       \* install_manifest: the copy-override flag
    pc,         \* where install_manifest is: "start", inside execute_copies
                \* for the copy list ("copies"), in the link phase ("links"),
                \* inside execute_copies for the scripts ("scripts"), in the
                \* loop of execute_runs ("runs"), "done" or "fatal"
    step_no,    \* the index of the current step among the filtered steps
    entry_no,   \* the index of the current entry in the current list
    errors,     \* errors of install_manifest
    run_errors, \* errors of execute_runs
    call_errors,\* errors of the running execute_copies or execute_links
    result,     \* Unset, or what install_manifest returned
    out,        \* what was announced and attempted so far, in order
    tree,       \* the files and directories created by staging
    any_failed, \* whether some attempted action has failed
    all_failed, \* whether every attempted copy, link, stage and run has failed
    error_line, \* Unset, or the error line the last step of the run has
                \* printed: the action that failed and where it was called
    exit_code,  \* Unset, or the status the process has exited with
    source,     \* copy_file, link_file: the source, a string
    cwd,        \* the working directory of the process, a string
    fs,         \* the local file system: the entry at every location
    fs_before,  \* the file system before the last call
    call,       \* which of copy_file and link_file is called
    io,         \* Unset, or what the last call returned
    calls,      \* how many times the operation has been called
    scp,        \* send_staged_files: the transfers each call has issued, call
                \* after call, each the item sent, the remote directory it
                \* was sent to and whether scp has succeeded
    flushed,    \* send_staged_files: Unset, or what the last call returned
    tree_before \* send_staged_files: the staged files and directories before
                \* the last call

tagVars == <<rules, tags, matched>>
stageVars == <<dst, staging_dir, staged, resolved>>
localVars == <<source, cwd, fs, fs_before, call, io, calls>>
flushVars == <<scp, flushed, tree_before>>

inputVars == <<manifest, tag_rules, host, dry_run, copy>>
coreVars == <<manifest, tag_rules, host, dry_run, copy, pc, step_no, entry_no, errors,
              run_errors, call_errors, result, out, tree, any_failed, all_failed,
              error_line, exit_code>>

coreVarsButExit == <<manifest, tag_rules, host, dry_run, copy, pc, step_no, entry_no,
                     errors, run_errors, call_errors, result, out, tree, any_failed,
                     all_failed, error_line>>

vars == <<rules, tags, matched, dst, staging_dir, staged, resolved, manifest, tag_rules,
          host, dry_run, copy, pc, step_no, entry_no, errors, run_errors, call_errors,
          result, out, tree, any_failed, all_failed, error_line, exit_code,
          source, cwd, fs, fs_before, call, io, calls, scp, flushed, tree_before>>

\* A value not yet returned is <<>>; a returned value v is <<v>>.
Unset == <<>>
Returned(v) == <<v>>

(***************************************************************************)
(* Bounds of the model                                                     *)
(***************************************************************************)
MaxRules == 2
MaxRuleChars == 4
MaxTags == 2
MaxDstLen == 5
MaxSteps == 2
MaxCalls == 2

(***************************************************************************)
(* Strings                                                                 *)
(***************************************************************************)
\* The characters of tag rules: the negation marker, the union separator
\* and two letters that differ in case only.
RuleAlphabet == {"^", ",", "a", "A"}

\* The tags a step may carry: the empty tag and tags of one and two letters.
TagLabels == {<<>>, <<"a">>, <<"A">>, <<"a", "A">>}

StringsUpTo(alphabet, n) == UNION {[1..k -> alphabet] : k \in 0..n}

\* The lists of exactly k strings over the alphabet with at most n characters
\* in all.
RECURSIVE ListsOf(_, _, _)
ListsOf(alphabet, k, n) ==
    IF k = 0 THEN {<<>>}
    ELSE UNION {{<<s>> \o rest : rest \in ListsOf(alphabet, k - 1, n - Len(s))} :
                    s \in StringsUpTo(alphabet, n)}

\* Rule lists of at most MaxRules rules and MaxRuleChars characters in all.
RuleLists == UNION {ListsOf(RuleAlphabet, k, MaxRuleChars) : k \in 0..MaxRules}

TagLists == UNION {[1..k -> TagLabels] : k \in 0..MaxTags}

\* The characters of destination paths: the tilde, the path separator, the
\* dot, a one-letter name and the name of the home staging subtree.
PathAlphabet == {"~", "/", ".", "s", "home"}

Destinations == StringsUpTo(PathAlphabet, MaxDstLen)

\* The directory tempdir() hands out: an absolute path.
StagingDirs == {<<"/", "s">>}

(***************************************************************************)
(* manifest.rs: tags_match                                                 *)
(***************************************************************************)
\* The substrings of s between the occurrences of sep at or after position i,
\* the first of them starting at position start.
RECURSIVE split_from(_, _, _, _)
split_from(s, sep, start, i) ==
    IF i > Len(s) THEN <<SubSeq(s, start, Len(s))>>
    ELSE IF s[i] = sep
    THEN <<SubSeq(s, start, i - 1)>> \o split_from(s, sep, i + 1, i + 1)
    ELSE split_from(s, sep, start, i + 1)

\* A variant that never splits.
split_none(s, sep) == <<s>>

\* str::split: the substrings between the occurrences of sep, in order;
\* a string without sep (the empty string too) yields itself.
split(s, sep) == split_from(s, sep, 1, 1)

\* rule.chars().nth(0) == Some('^')
is_negated(rule) == Len(rule) > 0 /\ rule[1] = "^"

\* tags.iter().any(|tag| tag == subrule) over the subrules of one rule
tag_found(rule, tgs) ==
    LET _rule == IF is_negated(rule) THEN SubSeq(rule, 2, Len(rule)) ELSE rule
        subrules == split(_rule, ",")
    IN  \E n \in DOMAIN subrules : \E t \in DOMAIN tgs : tgs[t] = subrules[n]

\* A variant that returns at the first rule that is satisfied.
RECURSIVE tags_match_any(_, _)
tags_match_any(rls, tgs) ==
    IF rls = <<>> THEN TRUE
    ELSE IF tag_found(Head(rls), tgs) # is_negated(Head(rls)) THEN TRUE
    ELSE tags_match_any(Tail(rls), tgs)

\* A variant that lets a negated rule fail when none of its tags is found.
RECURSIVE tags_match_strict(_, _)
tags_match_strict(rls, tgs) ==
    IF rls = <<>> THEN TRUE
    ELSE IF ~tag_found(Head(rls), tgs) THEN FALSE
    ELSE tags_match_strict(Tail(rls), tgs)

\* A variant that rejects when there is nothing to compare.
RECURSIVE tags_match_nonempty(_, _)
tags_match_nonempty(rls, tgs) ==
    IF rls = <<>> THEN tgs # <<>>
    ELSE IF tag_found(Head(rls), tgs) = is_negated(Head(rls)) THEN FALSE
    ELSE tags_match_nonempty(Tail(rls), tgs)

\* The loop over the rules, returning false at the first unsatisfied rule.
RECURSIVE tags_match(_, _)
tags_match(rls, tgs) ==
    IF rls = <<>> THEN TRUE
    ELSE IF tag_found(Head(rls), tgs) = is_negated(Head(rls)) THEN FALSE
    ELSE tags_match(Tail(rls), tgs)

(***************************************************************************)
(* std::path on Unix, as far as ssh.rs uses it                             *)
(***************************************************************************)
is_absolute(path) == path # <<>> /\ path[1] = "/"

\* Path::components: the root if the path is absolute, a leading "." of a
\* relative path, and then every name between separators; empty names
\* (repeated and trailing separators) and "." are dropped, ".." is kept.
components(path) ==
    LET pieces == split(path, "/")
        first == IF is_absolute(path) THEN << <<"/">> >>
                 ELSE IF Head(pieces) = <<".">> THEN << <<".">> >>
                 ELSE <<>>
    IN  first \o SelectSeq(pieces, LAMBDA c : c # <<>> /\ c # <<".">>)

IsPrefix(a, b) == Len(a) <= Len(b) /\ SubSeq(b, 1, Len(a)) = a

\* Path::starts_with: component-wise prefix
path_starts_with(path, base) == IsPrefix(components(base), components(path))

\* Path::join: an absolute argument replaces the path, anything else is
\* appended after a separator (none is added after a trailing separator).
join(base, path) ==
    IF is_absolute(path) THEN path
    ELSE IF base = <<>> \/ base[Len(base)] = "/" THEN base \o path
    ELSE base \o <<"/">> \o path

\* The components cs written as a path
RECURSIVE from_components(_)
from_components(cs) ==
    IF cs = <<>> THEN <<>>
    ELSE IF Head(cs) = <<"/">> THEN <<"/">> \o from_components(Tail(cs))
    ELSE IF Len(cs) = 1 THEN Head(cs)
    ELSE Head(cs) \o <<"/">> \o from_components(Tail(cs))

\* Path::strip_prefix: the components after those of base, or an error
strip_prefix(path, base) ==
    IF path_starts_with(path, base)
    THEN [err |-> FALSE,
          path |-> from_components(SubSeq(components(path),
                                          Len(components(base)) + 1,
                                          Len(components(path))))]
    ELSE [err |-> TRUE, path |-> <<>>]

\* shellexpand::tilde_with_context: a leading "~" that ends the string or is
\* followed by a separator is replaced by the home directory.
tilde_with_context(input, home) ==
    IF input # <<>> /\ input[1] = "~" /\ (Len(input) = 1 \/ input[2] = "/")
    THEN home \o Tail(input)
    ELSE input

(***************************************************************************)
(* ssh.rs: stage_file, up to its call of copy_file                         *)
(***************************************************************************)
\* The path stage_file hands to copy_file, or the error it returns before.
stage_path(d, dir) ==
    LET home_dir == join(dir, <<"home">>)
        root_dir == join(dir, <<"root">>)
        expanded == tilde_with_context(d, home_dir)
        _dst == join(home_dir, expanded)
    IN  IF path_starts_with(_dst, home_dir)
        THEN [err |-> FALSE, path |-> _dst]
        ELSE IF components(_dst) = <<>>
        THEN [err |-> TRUE, path |-> <<>>]       \* Failed to get root
        ELSE LET root == join(Head(components(_dst)), <<"/">>)
                 dst_without_root == strip_prefix(_dst, root)
             IN  IF dst_without_root.err
                 THEN [err |-> TRUE, path |-> <<>>]   \* Failed to strip root
                 ELSE [err |-> FALSE, path |-> join(root_dir, dst_without_root.path)]

\* The file a path names once the operating system has followed its ".."
\* components (the staging directory is fresh and holds no symbolic link).
RECURSIVE fs_resolve(_, _)
fs_resolve(cs, acc) ==
    IF cs = <<>> THEN acc
    ELSE IF Head(cs) = <<".", ".">>
    THEN fs_resolve(Tail(cs),
                    IF Len(acc) > 1 THEN SubSeq(acc, 1, Len(acc) - 1) ELSE acc)
    ELSE fs_resolve(Tail(cs), Append(acc, Head(cs)))

fs_location(path) == fs_resolve(components(path), <<>>)

(***************************************************************************)
(* The inputs of install_manifest                                          *)
(***************************************************************************)
Digits == <<"1", "2", "3", "4", "5", "6", "7", "8", "9">>

\* The steps a manifest is made of: the tags, the destinations of the copy
\* and link entries and the prefix and postfix of the run entries.  The
\* first has every list filled, with a tilde, a relative and an absolute
\* destination; the second has links only; the third has no tags, no links
\* and a script without prefix.
StepShapes ==
    { [tags |-> << <<"a">> >>,
       copy |-> << <<"~", "/", "s">>, <<"s">> >>,
       link |-> << <<"/", "s">> >>,
       run  |-> << [prefix |-> <<"sh">>, postfix |-> <<"-t", " ", "$COLIRU_RULES">>],
                   [prefix |-> <<>>, postfix |-> <<>>] >>],
      [tags |-> << <<"A">>, <<"a">> >>,
       copy |-> <<>>,
       link |-> << <<"~", "/", "s">>, <<"s", "/", "s">> >>,
       run  |-> <<>>],
      [tags |-> <<>>,
       copy |-> << <<"/", "s", "/", "s">> >>,
       link |-> <<>>,
       run  |-> << [prefix |-> <<>>, postfix |-> <<"$COLIRU_RULES">>] >>] }

\* The step of a shape at position k of the manifest; the source files are
\* named after the list, the position of the step and that of the entry.
MakeStep(shape, k) ==
    [tags |-> shape.tags,
     copy |-> [n \in DOMAIN shape.copy |->
                 [src |-> <<"copy", Digits[k], Digits[n]>>, dst |-> shape.copy[n]]],
     link |-> [n \in DOMAIN shape.link |->
                 [src |-> <<"link", Digits[k], Digits[n]>>, dst |-> shape.link[n]]],
     run  |-> [n \in DOMAIN shape.run |->
                 [src |-> <<"run", Digits[k], Digits[n]>>,
                  prefix |-> shape.run[n].prefix,
                  postfix |-> shape.run[n].postfix]]]

\* The manifests: up to MaxSteps steps of different shapes, in any order
Manifests ==
    UNION {{[steps |-> [k \in 1..n |-> MakeStep(f[k], k)], base_dir |-> <<".">>] :
                f \in {g \in [1..n -> StepShapes] :
                          \A a, b \in 1..n : a # b => g[a] # g[b]}} : n \in 0..MaxSteps}

TagRuleChoices ==
    {<<>>, << <<"a">> >>, << <<"^", "a">> >>, << <<"a", ",", "A">>, <<"^", "x">> >>}

Hosts == {<<>>, <<"h">>}

(***************************************************************************)
(* manifest.rs: filter_manifest_steps                                      *)
(***************************************************************************)
\* The manifest with the steps whose tags match the rules, in their order.
filter_manifest_steps(m, rls) ==
    [steps |-> SelectSeq(m.steps, LAMBDA st : tags_match(rls, st.tags)),
     base_dir |-> m.base_dir]

(***************************************************************************)
(* ssh.rs: resolve_path, send_staged_files                                 *)
(***************************************************************************)
\* A variant that takes for a tilde path only what the shell expands: a
\* tilde alone or a tilde before a separator.
resolve_path_expanded(src, dir) ==
    IF tilde_with_context(src, <<"/">>) = src /\ ~is_absolute(src)
    THEN dir \o <<"/">> \o src
    ELSE src

\* A relative path without tilde is put under dir.
resolve_path(src, dir) ==
    IF ~(src # <<>> /\ src[1] = "~") /\ ~is_absolute(src)
    THEN dir \o <<"/">> \o src
    ELSE src

\* What copy_file leaves in the file system when it is asked to write path:
\* prepare_path creates the parent directories and removes an existing
\* destination, and fs::copy writes the file unless it fails.
present(dir) == IsPrefix(dir, components(staging_dir))

parent_dirs(path) ==
    LET cs == components(path)
    IN  {fs_resolve(SubSeq(cs, 1, n), <<>>) : n \in 1..(Len(cs) - 1)}

after_copy_file(tr, path, ok) ==
    LET dirs == {d \in parent_dirs(path) : ~present(d)}
    IN  IF ok THEN tr \cup dirs \cup {fs_location(path)}
        ELSE (tr \cup dirs) \ {fs_location(path)}

staging_home == components(join(staging_dir, <<"home">>))
staging_root == components(join(staging_dir, <<"root">>))

under(tr, dir) == {q \in tr : IsPrefix(dir, q)}

\* read_dir: the entries of a directory
read_dir(tr, dir) == {q \in under(tr, dir) : Len(q) = Len(dir) + 1}

\* send_dir: the items of the directory are sent one by one with scp -r to
\* the remote directory, in the order read_dir yields them; the first
\* transfer that fails ends the call, the items sent before it having
\* arrived.
send_dir(tr, dir, to) ==
    LET items == read_dir(tr, dir)
    IN  {[err |-> FALSE, scp |-> {[item |-> item, to |-> to, ok |-> TRUE] : item \in items}]}
        \cup {[err |-> TRUE,
               scp |-> {[item |-> item, to |-> to, ok |-> TRUE] : item \in sent}
                          \cup {[item |-> bad, to |-> to, ok |-> FALSE]}] :
                 <<sent, bad>> \in {p \in (SUBSET items) \X items : p[2] \notin p[1]}}

\* A variant that reports success and removes nothing.
remove_dir_all_kept(tr, dir) == {[err |-> FALSE, tree |-> tr]}

\* fs::remove_dir_all: the directory is removed with all that is in it; when
\* it fails the directory is left with some of its contents, an entry never
\* without the directory it is in.
remove_dir_all(tr, dir) ==
    {[err |-> FALSE, tree |-> tr \ under(tr, dir)]}
        \cup {[err |-> TRUE, tree |-> (tr \ under(tr, dir)) \cup left] :
                 left \in {l \in SUBSET under(tr, dir) :
                              /\ dir \in l
                              /\ \A q \in l : q = dir \/ SubSeq(q, 1, Len(q) - 1) \in l}}

\* send_staged_files for one subtree: nothing if an error has been returned
\* or the subtree does not exist; else send_dir, whose error is returned,
\* and then remove_dir_all, whose error is returned too.
send_subtree(before, dir, to) ==
    IF before.err \/ dir \notin before.tree THEN {before}
    ELSE UNION {IF sent.err
                THEN {[err |-> TRUE, tree |-> before.tree,
                       scp |-> before.scp \cup sent.scp]}
                ELSE {[err |-> gone.err, tree |-> gone.tree,
                       scp |-> before.scp \cup sent.scp] :
                         gone \in remove_dir_all(before.tree, dir)} :
                    sent \in send_dir(before.tree, dir, to)}

\* send_staged_files: home_dir and root_dir are computed once; the home
\* subtree goes to the remote home directory, then the root subtree to the
\* remote root.
send_staged_files(tr) ==
    UNION {UNION {send_subtree(h, root_dir, <<"/">>) :
                     h \in send_subtree([err |-> FALSE, tree |-> tr, scp |-> {}],
                                        home_dir, <<"~">>)} :
              home_dir \in {staging_home}, root_dir \in {staging_root}}

(***************************************************************************)
(* The local file system, and local.rs                                     *)
(***************************************************************************)
\* The home directory of the user, which shellexpand::tilde puts in the
\* place of a leading tilde
HomeDir == <<"/", "h">>

\* How many symbolic links the operating system follows for one path
SymlinkDepth == 3

\* The entries of the file system: directories, regular files with their
\* contents and symbolic links with the location they point to.  A
\* location is the sequence of the components of an absolute path without
\* "." and "..".
Entry(kind, data, target) == [kind |-> kind, data |-> data, target |-> target]
Directory == Entry("dir", <<>>, <<>>)
RegularFile(data) == Entry("file", data, <<>>)
Symlink(target) == Entry("symlink", <<>>, target)

Location(names) == << <<"/">> >> \o [n \in DOMAIN names |-> <<names[n]>>]

exists(f, loc) == loc \in DOMAIN f
is_dir(f, loc) == exists(f, loc) /\ f[loc].kind = "dir"

written(f, loc, entry) == [l \in DOMAIN f \cup {loc} |-> IF l = loc THEN entry ELSE f[l]]
removed(f, loc) == [l \in DOMAIN f \ {loc} |-> f[l]]

\* The location one component further from the directory at
entered(at, name) ==
    IF name = <<"/">> THEN << <<"/">> >>
    ELSE IF name = <<".">> THEN at
    ELSE IF name = <<".", ".">>
    THEN (IF Len(at) > 1 THEN SubSeq(at, 1, Len(at) - 1) ELSE at)
    ELSE Append(at, name)

\* Path lookup by the operating system: every component but the last must
\* lead to a directory; the entry found last need not exist and is not
\* followed when it is a symbolic link.
RECURSIVE walk(_, _, _)
walk(f, cs, at) ==
    IF cs = <<>> THEN [err |-> FALSE, loc |-> at]
    ELSE IF ~is_dir(f, at) THEN [err |-> TRUE, loc |-> at]
    ELSE walk(f, Tail(cs), entered(at, Head(cs)))

located(f, path) == walk(f, components(path), fs_location(cwd))

\* The entry a location stands for once its symbolic links are followed
RECURSIVE followed(_, _, _)
followed(f, loc, depth) ==
    IF exists(f, loc) /\ f[loc].kind = "symlink" /\ depth > 0
    THEN followed(f, f[loc].target, depth - 1)
    ELSE loc

\* std::path::absolute on Unix: the path put after the working directory
\* unless it is absolute, without "." but with its ".." and its tilde, and
\* without a look at the file system (the paths of the model are not
\* empty).  Two results are equal when their components are.
absolute(path) == components(join(cwd, path))

\* fs::create_dir_all: the missing directories of the path are created;
\* a component that is there and is no directory is an error.
RECURSIVE create_dir_all(_, _, _)
create_dir_all(f, cs, at) ==
    IF cs = <<>> THEN [err |-> FALSE, fs |-> f]
    ELSE LET loc == entered(at, Head(cs))
         IN  IF ~exists(f, loc)
             THEN create_dir_all(written(f, loc, Directory), Tail(cs), loc)
             ELSE IF is_dir(f, loc) THEN create_dir_all(f, Tail(cs), loc)
             ELSE [err |-> TRUE, fs |-> f]

\* Path::parent: the path without its last component
parent(path) ==
    LET cs == components(path)
    IN  IF cs = <<>> THEN <<>> ELSE SubSeq(cs, 1, Len(cs) - 1)

\* A variant that leaves what is at the path where it is.
prepare_path_kept(f, path) ==
    LET _dst == tilde_with_context(path, HomeDir)
        made == create_dir_all(f, parent(_dst), fs_location(cwd))
    IN  [err |-> made.err, fs |-> made.fs, path |-> _dst]

\* prepare_path: the tilde is expanded, the parent directories are created
\* and whatever is at the path, a broken symbolic link included, is
\* removed; remove_file fails on a directory.
prepare_path(f, path) ==
    LET _dst == tilde_with_context(path, HomeDir)
        made == create_dir_all(f, parent(_dst), fs_location(cwd))
        found == located(made.fs, _dst)
    IN  IF made.err THEN [err |-> TRUE, fs |-> made.fs, path |-> _dst]
        ELSE IF ~found.err /\ exists(made.fs, found.loc)
        THEN (IF is_dir(made.fs, found.loc)
              THEN [err |-> TRUE, fs |-> made.fs, path |-> _dst]
              ELSE [err |-> FALSE, fs |-> removed(made.fs, found.loc), path |-> _dst])
        ELSE [err |-> FALSE, fs |-> made.fs, path |-> _dst]

\* fs::copy: the source must lead to a regular file; the destination is
\* created, or truncated when it is there, with the contents of the source.
fs_copy(f, src, path) ==
    LET s == located(f, src)
        from == followed(f, s.loc, SymlinkDepth)
        d == located(f, path)
        into == followed(f, d.loc, SymlinkDepth)
    IN  IF s.err \/ ~exists(f, from) \/ d.err THEN [err |-> TRUE, fs |-> f]
        ELSE IF f[from].kind # "file" \/ is_dir(f, into) THEN [err |-> TRUE, fs |-> f]
        ELSE IF exists(f, into) /\ f[into].kind = "symlink" THEN [err |-> TRUE, fs |-> f]
        ELSE [err |-> FALSE, fs |-> written(f, into, RegularFile(f[from].data))]

\* symlink(fs::canonicalize(src), _dst): the source must exist, and the
\* link is made to the location it stands for; the destination must not.
fs_symlink(f, src, path) ==
    LET s == located(f, src)
        target == followed(f, s.loc, SymlinkDepth)
        d == located(f, path)
    IN  IF s.err \/ ~exists(f, target) \/ f[target].kind = "symlink"
        THEN [err |-> TRUE, fs |-> f]
        ELSE IF d.err \/ exists(f, d.loc) THEN [err |-> TRUE, fs |-> f]
        ELSE [err |-> FALSE, fs |-> written(f, d.loc, Symlink(target))]

\* copy_file, link_file: whether the two paths are the same path
same_path(src, path) == absolute(src) = absolute(path)

\* copy_file
copy_file(f, src, path) ==
    IF same_path(src, path) THEN [err |-> FALSE, fs |-> f]
    ELSE LET prepared == prepare_path(f, path)
         IN  IF prepared.err THEN [err |-> TRUE, fs |-> prepared.fs]
             ELSE fs_copy(prepared.fs, src, prepared.path)

\* link_file
link_file(f, src, path) ==
    IF same_path(src, path) THEN [err |-> FALSE, fs |-> f]
    ELSE LET prepared == prepare_path(f, path)
         IN  IF prepared.err THEN [err |-> TRUE, fs |-> prepared.fs]
             ELSE fs_symlink(prepared.fs, src, prepared.path)

(***************************************************************************)
(* core.rs                                                                 *)
(***************************************************************************)
SSH_INSTALL_DIR == <<".coliru">>

\* A variant that joins without the separator.
RECURSIVE str_join_none(_, _)
str_join_none(strs, sep) ==
    IF strs = <<>> THEN <<>> ELSE Head(strs) \o str_join_none(Tail(strs), sep)

RECURSIVE str_join(_, _)
str_join(strs, sep) ==
    IF strs = <<>> THEN <<>>
    ELSE IF Len(strs) = 1 THEN Head(strs)
    ELSE Head(strs) \o sep \o str_join(Tail(strs), sep)

\* str::replace for a pattern that is one character of the model
RECURSIVE replace(_, _, _)
replace(str, pattern, by) ==
    IF str = <<>> THEN <<>>
    ELSE (IF Head(str) = pattern THEN by ELSE <<Head(str)>>)
            \o replace(Tail(str), pattern, by)

\* A variant that runs every step of the manifest.
unfiltered_manifest == manifest

\* install_manifest: the manifest its loop runs over
filtered_manifest == filter_manifest_steps(manifest, tag_rules)

step == filtered_manifest.steps[step_no]

step_count == Len(filtered_manifest.steps)

\* A variant that counts the steps of the manifest as it was read.
step_str_unfiltered == [step |-> step_no, of |-> Len(manifest.steps)]

\* install_manifest: the progress counter of the current step, [i+1/len]
step_str == [step |-> step_no, of |-> step_count]

\* A variant of the test that links unless both conditions ask for a copy.
links_linked_either == ~copy \/ host = <<>>

\* install_manifest: whether the link list is executed by execute_links
links_linked == ~copy /\ host = <<>>

\* A variant that sends the scripts to the remote home directory.
run_copies_home ==
    [n \in DOMAIN step.run |-> [src |-> step.run[n].src, dst |-> <<"~", "/">> \o step.run[n].src]]

\* execute_runs: the copy commands that send the scripts
run_copies == [n \in DOMAIN step.run |-> [src |-> step.run[n].src, dst |-> step.run[n].src]]

\* A variant that is called with the link list first.
copies_swapped ==
    CASE pc = "copies" -> step.link
      [] pc = "links" -> step.copy
      [] pc = "scripts" -> run_copies

\* The list the running execute_copies was called with
copies ==
    CASE pc = "copies" -> step.copy
      [] pc = "links" -> step.link
      [] pc = "scripts" -> run_copies

\* execute_runs: the command of a run entry
command(run) ==
    LET postfix == replace(run.postfix, "$COLIRU_RULES", str_join(tag_rules, <<" ">>))
    IN  run.prefix \o <<" ">> \o run.src \o <<" ">> \o postfix

\* handle_error: the error line printed for an action that has failed,
\* with the list and the step it was called for
handle_error(failed, what, src) ==
    IF failed
    THEN Returned([what |-> what, src |-> src, list |-> pc, step |-> step_no])
    ELSE Unset

\* A variant that attempts the action before it announces it.
attempted_unannounced(lines, op) ==
    Append(SubSeq(lines, 1, Len(lines) - 1), op) \o <<lines[Len(lines)]>>

\* The output once the action that was announced last has been attempted:
\* the executors print the announcement, leave in a dry run, and only then
\* call the operation.
then_attempted(lines, op) == Append(lines, op)

Event(ev, what, src, arg) ==
    [ev |-> ev, what |-> what, step |-> step_str.step, of |-> step_str.of,
     src |-> src, arg |-> arg]

(***************************************************************************)
(* The variables a state machine does not use stay as they are here.       *)
(***************************************************************************)
IdleTags == rules = <<>> /\ tags = <<>> /\ matched = Unset
IdleStage == dst = <<>> /\ staging_dir = <<>> /\ staged = Unset /\ resolved = Unset
IdleRun ==
    /\ manifest = [steps |-> <<>>, base_dir |-> <<".">>]
    /\ tag_rules = <<>>
    /\ host = <<>>
    /\ dry_run = FALSE
    /\ copy = FALSE
    /\ pc = "idle"
    /\ step_no = 0
    /\ entry_no = 0
    /\ errors = FALSE
    /\ run_errors = FALSE
    /\ call_errors = FALSE
    /\ result = Unset
    /\ out = <<>>
    /\ any_failed = FALSE
    /\ all_failed = TRUE
    /\ error_line = Unset
    /\ exit_code = Unset
IdleCore == IdleRun /\ tree = {}
IdleLocal ==
    /\ source = <<>>
    /\ cwd = <<>>
    /\ fs = <<>>
    /\ fs_before = <<>>
    /\ call = ""
    /\ io = Unset
    /\ calls = 0
IdleFlush == scp = <<>> /\ flushed = Unset /\ tree_before = {}

(***************************************************************************)
(* The staging path resolver and resolve_path as a state machine           *)
(***************************************************************************)

InitStage ==
    /\ dst \in Destinations
    /\ staging_dir \in StagingDirs
    /\ staged = Unset
    /\ resolved = Unset
    /\ IdleTags
    /\ IdleCore
    /\ IdleLocal
    /\ IdleFlush

Stage ==
    /\ staged = Unset
    /\ staged' = Returned(stage_path(dst, staging_dir))
    /\ UNCHANGED <<dst, staging_dir, resolved, tagVars, localVars, flushVars, coreVars>>

\* The directories resolve_path is called with: the install directory under
\* the remote home directory, and a relative one
ResolveDirs == {<<"~", "/">> \o SSH_INSTALL_DIR, <<"s">>}

\* resolve_path is called for the destination.
Resolve ==
    /\ resolved = Unset
    /\ \E dir \in ResolveDirs :
          resolved' = Returned([dir |-> dir, path |-> resolve_path(dst, dir)])
    /\ UNCHANGED <<dst, staging_dir, staged, tagVars, localVars, flushVars, coreVars>>

NextStage == Stage \/ Resolve

SpecStage == InitStage /\ [][NextStage]_vars

(***************************************************************************)
(* The tag rule evaluator as a state machine: the inputs are drawn in      *)
(* InitTags and Evaluate applies tags_match to them.                       *)
(***************************************************************************)
InitTags ==
    /\ rules \in RuleLists
    /\ tags \in TagLists
    /\ matched = Unset
    /\ IdleStage
    /\ IdleCore
    /\ IdleLocal
    /\ IdleFlush

Evaluate ==
    /\ matched = Unset
    /\ matched' = Returned(tags_match(rules, tags))
    /\ UNCHANGED <<rules, tags, stageVars, coreVars, localVars, flushVars>>

NextTags == Evaluate

SpecTags == InitTags /\ [][NextTags]_vars

(***************************************************************************)
(* The step orchestrator as a state machine: one action for the start of   *)
(* install_manifest, one for each iteration of the loops of execute_copies,*)
(* execute_links and execute_runs, and one for the code after each loop up *)
(* to the next loop.                                                       *)
(***************************************************************************)
Init ==
    /\ manifest \in Manifests
    /\ tag_rules \in TagRuleChoices
    /\ host \in Hosts
    /\ dry_run \in BOOLEAN
    /\ copy \in BOOLEAN
    /\ staging_dir \in StagingDirs
    /\ pc = "start"
    /\ step_no = 0
    /\ entry_no = 0
    /\ errors = FALSE
    /\ run_errors = FALSE
    /\ call_errors = FALSE
    /\ result = Unset
    /\ out = <<>>
    /\ tree = {}
    /\ any_failed = FALSE
    /\ all_failed = TRUE
    /\ error_line = Unset
    /\ exit_code = Unset
    /\ IdleTags
    /\ IdleLocal
    /\ IdleFlush
    /\ dst = <<>>
    /\ staged = Unset
    /\ resolved = Unset

\* The loop of install_manifest reaches step k, or ends and returns errs.
GotoStep(k, errs) ==
    /\ step_no' = k
    /\ entry_no' = 1
    /\ IF k > step_count
       THEN pc' = "done" /\ result' = Returned([err |-> FALSE, errors |-> errs])
       ELSE pc' = "copies" /\ result' = result

\* A variant that notes the failure and enters the loop all the same.
Failed_goes_on ==
    /\ result' = Returned([err |-> TRUE, errors |-> FALSE])
    /\ step_no' = 1
    /\ entry_no' = 1
    /\ pc' = IF step_count >= 1 THEN "copies" ELSE "fatal"

\* install_manifest: the error of tempdir or of set_current_dir is returned
\* at once by the ? operator.
Failed ==
    /\ pc' = "fatal"
    /\ result' = Returned([err |-> TRUE, errors |-> FALSE])
    /\ UNCHANGED <<step_no, entry_no>>

\* install_manifest up to its loop: the steps are filtered, the staging
\* directory is created and the working directory is set; a failure of
\* either is returned at once.
Start ==
    /\ pc = "start"
    /\ \E fatal \in BOOLEAN :
          IF fatal
          THEN Failed
          ELSE GotoStep(1, FALSE)
    /\ errors' = FALSE
    /\ call_errors' = FALSE
    /\ error_line' = Unset
    /\ UNCHANGED <<inputVars, run_errors, out, tree, any_failed, all_failed,
                   tagVars, localVars, flushVars, stageVars, exit_code>>

\* A variant that leaves the loop when the action has failed.
next_entry_break(failed, len) == IF failed THEN len + 1 ELSE entry_no + 1

\* A variant that does not come back from an action that has failed.
next_entry_stuck(failed, len) == IF failed THEN len + 2 ELSE entry_no + 1

\* The loops of execute_copies, execute_links and execute_runs go on to the
\* next entry whether or not the action has failed: handle_error turns
\* the error into a flag.
next_entry(failed, len) == entry_no + 1

\* The outcome of one attempted copy, link, stage or run, recorded.
Attempted(failed) ==
    /\ any_failed' = (any_failed \/ failed)
    /\ all_failed' = (all_failed /\ failed)

\* A variant that stages the file whatever the host.
stages_always == TRUE

\* execute_copies: the file is staged when installing over SSH, and copied
\* to its destination otherwise.
stages == host # <<>>

InCopies ==
    /\ pc \in {"copies", "links", "scripts"}
    /\ pc = "links" => ~links_linked

\* One iteration of the loop of execute_copies.
CopyEntry ==
    /\ InCopies
    /\ entry_no <= Len(copies)
    /\ \E c \in {copies[entry_no]} :
       LET _dst == IF host # <<>>
                   THEN resolve_path(c.dst, <<"~", "/">> \o SSH_INSTALL_DIR)
                   ELSE c.dst
           shown == IF host # <<>> THEN host \o <<":">> \o _dst ELSE _dst
           announced == Append(out, Event("announce", "Copy", c.src, shown))
       IN  IF dry_run
           THEN /\ out' = announced
                /\ entry_no' = entry_no + 1
                /\ error_line' = Unset
                /\ UNCHANGED <<call_errors, tree, any_failed, all_failed>>
           ELSE IF ~stages
           THEN \E ok \in BOOLEAN :
                   /\ out' = then_attempted(announced, Event("op", "copy_file", c.src, _dst))
                   /\ error_line' = handle_error(~ok, "copy_file", c.src)
                   /\ call_errors' = (call_errors \/ ~ok)
                   /\ Attempted(~ok)
                   /\ tree' = tree
                   /\ entry_no' = next_entry(~ok, Len(copies))
           ELSE \E to \in {stage_path(_dst, staging_dir)} :
                   \E ok \in (IF to.err THEN {FALSE} ELSE BOOLEAN) :
                       /\ out' = then_attempted(announced, Event("op", "stage_file", c.src, _dst))
                       /\ error_line' = handle_error(~ok, "stage_file", c.src)
                       /\ call_errors' = (call_errors \/ ~ok)
                       /\ Attempted(~ok)
                       /\ tree' = IF to.err THEN tree
                                  ELSE after_copy_file(tree, to.path, ok)
                       /\ entry_no' = next_entry(~ok, Len(copies))
    /\ UNCHANGED <<inputVars, staging_dir, pc, step_no, errors, run_errors, result,
                   tagVars, localVars, flushVars, dst, staged, resolved, exit_code>>

\* A variant of execute_runs that does not copy the scripts.
runs_entry_direct == "runs"

\* execute_runs: over SSH the scripts are copied before the loop is entered.
runs_entry == IF host # <<>> THEN "scripts" ELSE "runs"

\* execute_runs up to its loop
EnterRuns ==
    /\ run_errors' = FALSE
    /\ call_errors' = FALSE
    /\ entry_no' = 1
    /\ pc' = runs_entry

\* A variant of execute_copies that sends the staged files in a dry run too.
flushes_always == TRUE

\* execute_copies: the staged files are sent unless this is a dry run.
flushes == ~dry_run

\* execute_copies after its loop: the staged files are sent unless this is
\* a dry run; the caller takes the returned errors and goes on.
EndCopies ==
    /\ InCopies
    /\ entry_no = Len(copies) + 1
    /\ \E sent \in (IF flushes THEN send_staged_files(tree)
                    ELSE {[err |-> FALSE, tree |-> tree]}) :
          /\ tree' = sent.tree
          /\ out' = IF flushes
                    THEN Append(out, Event("op", "send_staged_files", <<>>, host))
                    ELSE out
          /\ any_failed' = (any_failed \/ sent.err)
          /\ error_line' = handle_error(sent.err, "send_staged_files", <<>>)
          /\ LET returned == call_errors \/ sent.err
             IN  CASE pc = "copies" ->
                        /\ errors' = (errors \/ returned)
                        /\ pc' = "links"
                        /\ entry_no' = 1
                        /\ call_errors' = FALSE
                        /\ run_errors' = run_errors
                   [] pc = "links" ->
                        /\ errors' = (errors \/ returned)
                        /\ EnterRuns
                   [] pc = "scripts" ->
                        /\ run_errors' = (run_errors \/ returned)
                        /\ pc' = "runs"
                        /\ entry_no' = 1
                        /\ UNCHANGED <<errors, call_errors>>
    /\ UNCHANGED <<inputVars, staging_dir, step_no, result, all_failed,
                   tagVars, localVars, flushVars, dst, staged, resolved, exit_code>>

\* One iteration of the loop of execute_links.
LinkEntry ==
    /\ pc = "links"
    /\ links_linked
    /\ entry_no <= Len(step.link)
    /\ LET link == step.link[entry_no]
           announced == Append(out, Event("announce", "Link", link.src, link.dst))
       IN  IF dry_run
           THEN /\ out' = announced
                /\ entry_no' = entry_no + 1
                /\ error_line' = Unset
                /\ UNCHANGED <<call_errors, any_failed, all_failed>>
           ELSE \E ok \in BOOLEAN :
                   /\ out' = then_attempted(announced, Event("op", "link_file", link.src, link.dst))
                   /\ error_line' = handle_error(~ok, "link_file", link.src)
                   /\ call_errors' = (call_errors \/ ~ok)
                   /\ Attempted(~ok)
                   /\ entry_no' = next_entry(~ok, Len(step.link))
    /\ UNCHANGED <<inputVars, staging_dir, pc, step_no, errors, run_errors, result,
                   tree, tagVars, localVars, flushVars, dst, staged, resolved, exit_code>>

\* execute_links after its loop, and the caller up to the loop of
\* execute_runs.
EndLinks ==
    /\ pc = "links"
    /\ links_linked
    /\ entry_no = Len(step.link) + 1
    /\ errors' = (errors \/ call_errors)
    /\ EnterRuns
    /\ error_line' = Unset
    /\ UNCHANGED <<inputVars, staging_dir, step_no, result, out, tree, any_failed,
                   all_failed, tagVars, localVars, flushVars, dst, staged, resolved, exit_code>>

\* One iteration of the loop of execute_runs.
RunEntry ==
    /\ pc = "runs"
    /\ entry_no <= Len(step.run)
    /\ LET run == step.run[entry_no]
           cmd == command(run)
           shown == IF host # <<>> THEN cmd \o <<" on ">> \o host ELSE cmd
           announced == Append(out, Event("announce", "Run", run.src, shown))
           ssh_cmd == <<"cd ">> \o SSH_INSTALL_DIR \o <<" && ">> \o cmd
       IN  IF dry_run
           THEN /\ out' = announced
                /\ entry_no' = entry_no + 1
                /\ error_line' = Unset
                /\ UNCHANGED <<run_errors, any_failed, all_failed>>
           ELSE \E ok \in BOOLEAN :
                   /\ out' = then_attempted(announced,
                                IF host = <<>>
                                THEN Event("op", "run_command", run.src, cmd)
                                ELSE Event("op", "send_command", run.src, ssh_cmd))
                   /\ run_errors' = (run_errors \/ ~ok)
                   /\ error_line' = handle_error(~ok, IF host = <<>> THEN "run_command"
                                                      ELSE "send_command", run.src)
                   /\ Attempted(~ok)
                   /\ entry_no' = next_entry(~ok, Len(step.run))
    /\ UNCHANGED <<inputVars, staging_dir, pc, step_no, errors, call_errors, result,
                   tree, tagVars, localVars, flushVars, dst, staged, resolved, exit_code>>

\* execute_runs after its loop, and install_manifest up to the next step or
\* to its return.
EndRuns ==
    /\ pc = "runs"
    /\ entry_no = Len(step.run) + 1
    /\ errors' = (errors \/ run_errors)
    /\ GotoStep(step_no + 1, errors \/ run_errors)
    /\ call_errors' = FALSE
    /\ error_line' = Unset
    /\ UNCHANGED <<inputVars, staging_dir, run_errors, out, tree, any_failed,
                   all_failed, tagVars, localVars, flushVars, dst, staged, resolved, exit_code>>

\* A variant that exits with 0 whenever install_manifest returns a flag.
exit_status_ok(returned) == IF returned.err THEN 2 ELSE 0

\* cli.rs run: the exit status for what run_args returned
exit_status(returned) == IF returned.err THEN 2 ELSE IF returned.errors THEN 1 ELSE 0

\* cli.rs run, after run_args has returned what install_manifest returned:
\* the process exits.
Exit ==
    /\ result # Unset
    /\ exit_code = Unset
    /\ exit_code' = Returned(exit_status(result[1]))
    /\ UNCHANGED <<coreVarsButExit, tagVars, localVars, flushVars, stageVars>>

Next ==
    \/ Start
    \/ CopyEntry
    \/ EndCopies
    \/ LinkEntry
    \/ EndLinks
    \/ RunEntry
    \/ EndRuns
    \/ Exit

Spec == Init /\ [][Next]_vars

\* The program is sequential and every external call returns: whatever step
\* can be taken next is taken.
FairSpec == Init /\ [][Next]_vars /\ WF_vars(Next)

(***************************************************************************)
(* copy_file and link_file as a state machine: the paths, the working      *)
(* directory and the file system are drawn in InitLocal, and the operation *)
(* is called up to MaxCalls times with the same arguments.                 *)
(***************************************************************************)
\* The sources: a relative and an absolute path
Sources == {<<"a">>, <<"/", "h", "/", "a">>}

\* The destinations: relative, with a tilde and absolute ones, with a
\* parent directory and with "." and ".."
LocalDestinations ==
    {<<"b">>, <<"~", "/", "b">>, <<"/", "h", "/", "b">>, <<"d", "/", "b">>,
     <<"a">>, <<".", "/", "a">>, <<"~", "/", "a">>, <<"/", "h", "/", "a">>,
     <<"d", "/", ".", ".", "/", "a">>}

\* The working directories: the home directory and another one
WorkDirs == {HomeDir, <<"/", "w">>}

Absent == Entry("none", <<>>, <<>>)

\* The file systems: the root, the home directory and the other working
\* directory are there; a is a file or missing in each of the two; b in the
\* home directory is missing, a file, a symbolic link to nothing, a
\* symbolic link to a, or a directory; d is missing, a directory or a file.
FileSystems ==
    LET always == {Location(<<>>), Location(<<"h">>), Location(<<"w">>)}
        choices == [ha : {Absent, RegularFile(<<"A">>)},
                    wa : {Absent, RegularFile(<<"W">>)},
                    hb : {Absent, RegularFile(<<"B">>), Directory,
                          Symlink(Location(<<"h", "x">>)),
                          Symlink(Location(<<"h", "a">>))},
                    hd : {Absent, Directory, RegularFile(<<"D">>)}]
        at(c) == (Location(<<"h", "a">>) :> c.ha) @@ (Location(<<"w", "a">>) :> c.wa)
                    @@ (Location(<<"h", "b">>) :> c.hb) @@ (Location(<<"h", "d">>) :> c.hd)
    IN  {[l \in always \cup {m \in DOMAIN at(c) : at(c)[m] # Absent} |->
             IF l \in always THEN Directory ELSE at(c)[l]] : c \in choices}

InitLocal ==
    /\ source \in Sources
    /\ dst \in LocalDestinations
    /\ cwd \in WorkDirs
    /\ fs \in FileSystems
    /\ fs_before = fs
    /\ call \in {"copy_file", "link_file"}
    /\ io = Unset
    /\ calls = 0
    /\ staging_dir = <<>>
    /\ staged = Unset
    /\ resolved = Unset
    /\ IdleTags
    /\ IdleCore
    /\ IdleFlush

Called(outcome) ==
    /\ calls < MaxCalls
    /\ fs_before' = fs
    /\ fs' = outcome.fs
    /\ io' = Returned([err |-> outcome.err])
    /\ calls' = calls + 1
    /\ UNCHANGED <<source, dst, cwd, call, staging_dir, staged, resolved, tagVars, coreVars,
                   flushVars>>

CopyFile == call = "copy_file" /\ Called(copy_file(fs, source, dst))

LinkFile == call = "link_file" /\ Called(link_file(fs, source, dst))

NextLocal == CopyFile \/ LinkFile

SpecLocal == InitLocal /\ [][NextLocal]_vars

(***************************************************************************)
(* send_staged_files as a state machine: InitFlush draws what has been     *)
(* staged, and SendStagedFiles is one call; it is called up to MaxCalls    *)
(* times on the same staging directory, as execute_copies calls it after   *)
(* every list of a run.                                                    *)
(***************************************************************************)
\* The destinations that are staged: in the home subtree with a tilde,
\* relative and in a directory, and in the root subtree
FlushDestinations ==
    << <<"~", "/", "s">>, <<"a">>, <<"d", "/", "s">>, <<"/", "s">>, <<"/", "d", "/", "s">> >>

\* The tree after stage_file has been called for the destinations of ds:
\* the call has succeeded for those marked "staged", has failed in fs::copy
\* for those marked "failed", and was not made for the others.
RECURSIVE StagedTree(_, _)
StagedTree(ds, marks) ==
    IF ds = <<>> THEN {}
    ELSE LET n == Len(ds)
             sofar == StagedTree(SubSeq(ds, 1, n - 1), marks)
         IN  IF marks[n] = "none" THEN sofar
             ELSE after_copy_file(sofar, stage_path(ds[n], staging_dir).path,
                                  marks[n] = "staged")

InitFlush ==
    /\ staging_dir \in StagingDirs
    /\ \E marks \in [DOMAIN FlushDestinations -> {"none", "staged", "failed"}] :
          tree = StagedTree(FlushDestinations, marks)
    /\ tree_before = tree
    /\ scp = <<>>
    /\ flushed = Unset
    /\ dst = <<>>
    /\ staged = Unset
    /\ resolved = Unset
    /\ IdleTags
    /\ IdleRun
    /\ IdleLocal

SendStagedFiles ==
    /\ Len(scp) < MaxCalls
    /\ \E sent \in send_staged_files(tree) :
          /\ tree' = sent.tree
          /\ scp' = Append(scp, sent.scp)
          /\ flushed' = Returned([err |-> sent.err])
    /\ tree_before' = tree
    /\ UNCHANGED <<inputVars, pc, step_no, entry_no, errors, run_errors,
                   call_errors, result, out, any_failed, all_failed, error_line,
                   exit_code, tagVars, stageVars, localVars>>

NextFlush == SendStagedFiles

SpecFlush == InitFlush /\ [][NextFlush]_vars

(***************************************************************************)
(* Properties of the tag rule evaluator                                    *)
(***************************************************************************)
\* The rule without one leading negation marker.
Body(r) == IF r # <<>> /\ r[1] = "^" THEN Tail(r) ELSE r

\* The labels of a rule: the maximal stretches of its body that hold no
\* union separator, each delimited by a separator or an end of the body.
LabelsOf(r) ==
    LET b == Body(r)
    IN  {SubSeq(b, i, j) : <<i, j>> \in
            {p \in (1..Len(b) + 1) \X (0..Len(b)) :
                /\ p[1] <= p[2] + 1
                /\ (p[1] = 1 \/ b[p[1] - 1] = ",")
                /\ (p[2] = Len(b) \/ b[p[2] + 1] = ",")
                /\ \A k \in p[1]..p[2] : b[k] # ","}}

Range(seq) == {seq[k] : k \in DOMAIN seq}

StartsNegated(r) == r # <<>> /\ r[1] = "^"

RuleSatisfied(r, T) == ((LabelsOf(r) \cap Range(T)) # {}) # StartsNegated(r)

C2_EmptyRulesMatch ==
    (matched # Unset /\ rules = <<>>) => matched = Returned(TRUE)

C2_Witness ==
    /\ rules = <<>> /\ tags = <<>> /\ matched = Returned(TRUE)

\* C3 as stated: a rule list with at least one rule never matches an empty
\* tag list.
C3_NonEmptyRulesNeverMatchEmptyTags ==
    (matched # Unset /\ rules # <<>> /\ tags = <<>>) => matched = Returned(FALSE)

\* C3 as amended: a rule list with at least one rule that does not start
\* with '^' never matches an empty tag list.
C3_PositiveRuleNeverMatchesEmptyTags ==
    (/\ matched # Unset
     /\ tags = <<>>
     /\ \E k \in DOMAIN rules : ~StartsNegated(rules[k]))
        => matched = Returned(FALSE)

C3_Witness ==
    /\ matched = Returned(FALSE)
    /\ tags = <<>>
    /\ rules = << <<"^", "a">>, <<"a">> >>

\* C4: against an empty tag list the outcome depends on negation only:
\* false when some rule is not negated, true when every rule is negated.
C4_EmptyTagsDependOnNegation ==
    (matched # Unset /\ tags = <<>>) =>
        matched = Returned(\A k \in DOMAIN rules : StartsNegated(rules[k]))

C4_Witness ==
    /\ matched = Returned(TRUE)
    /\ tags = <<>>
    /\ rules = << <<"^", "a">>, <<"^">> >>

(***************************************************************************)
(* Properties of the staging path resolver                                 *)
(***************************************************************************)
SamePath(p, q) == components(p) = components(q)

HomeOf(dir) == dir \o <<"/", "home">>
RootOf(dir) == dir \o <<"/", "root">>

StartsWith(str, prefix) == IsPrefix(prefix, str)

\* The destination is written relative: neither absolute nor with a tilde.
IsRelativeDst(d) == ~StartsWith(d, <<"/">>) /\ ~StartsWith(d, <<"~">>)

StagedAt(path) == ~staged[1].err /\ SamePath(staged[1].path, path)

\* C5: for every suffix x and staging directory S, "~/x" is staged at
\* S/home/x, a relative "x" is staged at S/home/x and an absolute "/x" is
\* staged at S/root/x.
C5_StageByKindOfPath ==
    staged # Unset =>
        /\ StartsWith(dst, <<"~", "/">>) =>
                StagedAt(HomeOf(staging_dir) \o <<"/">> \o SubSeq(dst, 3, Len(dst)))
        /\ IsRelativeDst(dst) =>
                StagedAt(HomeOf(staging_dir) \o <<"/">> \o dst)
        /\ StartsWith(dst, <<"/">>) =>
                StagedAt(RootOf(staging_dir) \o <<"/">> \o Tail(dst))

\* C6: every destination is resolved without error to a location that lies
\* in the home or in the root subtree of the staging directory.
C6_StagedInsideHomeOrRoot ==
    staged # Unset =>
        /\ ~staged[1].err
        /\ \/ IsPrefix(components(HomeOf(staging_dir)), fs_location(staged[1].path))
           \/ IsPrefix(components(RootOf(staging_dir)), fs_location(staged[1].path))
(***************************************************************************)
(* Properties of the step orchestrator                                     *)
(***************************************************************************)
Lists == {"copy", "link", "run"}

ListRank(list) == CASE list = "copy" -> 1 [] list = "link" -> 2 [] list = "run" -> 3

\* The positions in the manifest of the steps whose tags match the rules
Matched == {k \in DOMAIN manifest.steps : tags_match(tag_rules, manifest.steps[k].tags)}

EntriesOf(k, list) == DOMAIN manifest.steps[k][list]

SrcOf(k, list, n) == manifest.steps[k][list][n].src

\* The events that belong to an entry (all but the sending of staged files)
IsEntry(e) == e.src # <<>>

\* The list, the position of the step in the manifest and the position in
\* the list of the entry an event belongs to
ListOf(e) == e.src[1]
PosOf(e) == CHOOSE k \in DOMAIN Digits : Digits[k] = e.src[2]
NoOf(e) == CHOOSE n \in DOMAIN Digits : Digits[n] = e.src[3]

IsCommand(e) == e.what \in {"Run", "run_command", "send_command"}

\* What shows that an entry of a list has been attempted: its operation,
\* and in a dry run its announcement.
Attempts(list) ==
    IF list = "run"
    THEN (IF dry_run THEN {"Run"} ELSE {"run_command", "send_command"})
    ELSE (IF dry_run THEN {"Copy", "Link"} ELSE {"copy_file", "link_file", "stage_file"})

IsAttempt(e) == IsEntry(e) /\ e.what \in Attempts(ListOf(e))

Srcs(list) == [n \in DOMAIN list |-> list[n].src]

\* The entries of the steps at the positions ks from position k of the
\* manifest on, in the order of the manifest, of the lists and of each list
RECURSIVE EntriesFrom(_, _)
EntriesFrom(k, ks) ==
    IF k > Len(manifest.steps) THEN <<>>
    ELSE (IF k \in ks
          THEN Srcs(manifest.steps[k].copy) \o Srcs(manifest.steps[k].link)
                   \o Srcs(manifest.steps[k].run)
          ELSE <<>>) \o EntriesFrom(k + 1, ks)

\* Whether event e may come right before event f: not a later step, in the
\* same step not a later list, and in the same list not a later entry
\* (the commands of a run list come after the copies of its scripts).
InOrder(e, f) ==
    LET ke == <<PosOf(e), ListRank(ListOf(e)), IF IsCommand(e) THEN 1 ELSE 0, NoOf(e)>>
        kf == <<PosOf(f), ListRank(ListOf(f)), IF IsCommand(f) THEN 1 ELSE 0, NoOf(f)>>
    IN  \E n \in 1..5 :
            /\ \A m \in 1..(n - 1) : ke[m] = kf[m]
            /\ n = 5 \/ ke[n] < kf[n]

\* How many entries come before the entry of event e when the steps at the
\* positions ks are run: those of the steps before its step, those of the
\* earlier lists of its step, and those before it in its list (a script is
\* copied before any command of its run list, so the copy of a script waits
\* for no entry of that list).
EntriesBefore(e, ks) ==
    LET k == PosOf(e)
        rank == ListRank(ListOf(e))
        st == manifest.steps[k]
    IN  Len(EntriesFrom(1, {j \in ks : j < k}))
        + (IF rank > 1 THEN Len(st.copy) ELSE 0)
        + (IF rank > 2 THEN Len(st.link) ELSE 0)
        + (IF rank = 3 /\ ~IsCommand(e) THEN 0 ELSE NoOf(e) - 1)

\* Whether from event x of the output on, with so many entries attempted
\* before it, no event comes before the entries before its entry have all
\* been attempted
RECURSIVE NoneEarly(_, _, _)
NoneEarly(x, so_far, ks) ==
    \/ x > Len(out)
    \/ /\ IsEntry(out[x]) => so_far >= EntriesBefore(out[x], ks)
       /\ NoneEarly(x + 1, so_far + (IF IsAttempt(out[x]) THEN 1 ELSE 0), ks)

\* C7: the matched steps are processed in manifest order and within a step
\* the copy list, then the link list, then the run list, each in list
\* order: the events follow that order, the entries attempted so far are
\* the first entries in that order with none left out, nothing of an entry
\* is announced or attempted before every entry before it has been
\* attempted, and at the end every entry of every matched step has been
\* attempted.
C7_StepsAndListsInOrder ==
    LET run_steps == Matched
        entries == SelectSeq(out, IsEntry)
        attempts == SelectSeq(out, IsAttempt)
        attempted == [x \in DOMAIN attempts |-> attempts[x].src]
        expected == EntriesFrom(1, run_steps)
    IN  /\ \A x \in 1..(Len(entries) - 1) : InOrder(entries[x], entries[x + 1])
        /\ IsPrefix(attempted, expected)
        /\ pc = "done" => attempted = expected
        /\ NoneEarly(1, 0, run_steps)

\* Two matched steps with entries in every list of the first were run to
\* the end, not as a dry run.
C7_Witness ==
    /\ pc = "done"
    /\ ~dry_run
    /\ Matched = {1, 2}
    /\ \A list \in Lists : Len(manifest.steps[1][list]) >= 1
    /\ Len(manifest.steps[2].copy) >= 1
    /\ \E x \in DOMAIN out : out[x].what = "run_command" /\ PosOf(out[x]) = 1
    /\ \E x \in DOMAIN out : out[x].what = "copy_file" /\ PosOf(out[x]) = 2

\* C8: a step whose tags do not satisfy the rules leaves no trace: none of
\* its entries is announced, executed or staged, locally or over SSH, and
\* when no step matches nothing is announced, attempted or staged at all.
C8_SkippedStepHasNoEffect ==
    LET run_steps == Matched
        skipped == {SrcOf(k, list, n) : <<k, list, n>> \in
                       {t \in (DOMAIN manifest.steps) \X Lists \X DOMAIN Digits :
                           t[1] \notin run_steps /\ t[3] \in EntriesOf(t[1], t[2])}}
    IN  /\ \A x \in DOMAIN out : IsEntry(out[x]) => PosOf(out[x]) \in run_steps
        /\ \A x \in DOMAIN out : out[x].src \notin skipped
        /\ run_steps = {} => (out = <<>> /\ tree = {})

\* A run over SSH ended in which the first step was skipped and the
\* second was run.
C8_Witness ==
    /\ pc = "done"
    /\ host # <<>>
    /\ ~dry_run
    /\ Len(manifest.steps) = 2
    /\ Matched = {2}
    /\ \A list \in Lists : Len(manifest.steps[1][list]) >= 1
    /\ out # <<>>

\* What is announced and what is done for an entry of the link list
LinkEvents ==
    IF host = <<>> /\ ~copy THEN {"Link", "link_file"}
    ELSE IF host = <<>> THEN {"Copy", "copy_file"}
    ELSE {"Copy", "stage_file"}

\* What is announced and what is done for an entry of the copy list
CopyEvents == IF host = <<>> THEN {"Copy", "copy_file"} ELSE {"Copy", "stage_file"}

\* C9: the entries of the link list are linked only in a local run without
\* the copy flag; with a host or with the copy flag they are handled like
\* the entries of the copy list (announced as copies, copied locally or
\* staged and sent), and no link is made.
C9_LinksOnlyLocalWithoutCopyFlag ==
    /\ \A x \in DOMAIN out :
          /\ out[x].what \in {"Link", "link_file"} => (host = <<>> /\ ~copy)
          /\ (IsEntry(out[x]) /\ ListOf(out[x]) = "link") => out[x].what \in LinkEvents
          /\ (IsEntry(out[x]) /\ ListOf(out[x]) = "copy") => out[x].what \in CopyEvents
    /\ (host # <<>> \/ copy) => LinkEvents = CopyEvents
    /\ pc = "done" =>
          \A k \in Matched : \A n \in EntriesOf(k, "link") :
              /\ \E x \in DOMAIN out :
                    /\ out[x].src = SrcOf(k, "link", n)
                    /\ out[x].what \in Attempts("link") \cap LinkEvents
              /\ (~dry_run /\ host # <<>>) =>
                    \E x \in DOMAIN out : \E y \in DOMAIN out :
                        /\ x < y
                        /\ out[x].src = SrcOf(k, "link", n)
                        /\ out[x].what = "stage_file"
                        /\ out[y].what = "send_staged_files"

\* A local run with the copy flag has copied an entry of a link list.
C9_Witness ==
    /\ pc = "done"
    /\ host = <<>>
    /\ copy
    /\ ~dry_run
    /\ \E x \in DOMAIN out : out[x].what = "copy_file" /\ ListOf(out[x]) = "link"

\* The operations a run that is no dry run attempts for one step, whatever
\* their outcomes
Ops(list, what) == [n \in DOMAIN list |-> <<what, list[n].src>>]

Flush == << <<"send_staged_files", <<>> >> >>

ExpectedOpsOf(st) ==
    IF host = <<>>
    THEN Ops(st.copy, "copy_file") \o Flush
         \o (IF copy THEN Ops(st.link, "copy_file") \o Flush ELSE Ops(st.link, "link_file"))
         \o Ops(st.run, "run_command")
    ELSE Ops(st.copy, "stage_file") \o Flush
         \o Ops(st.link, "stage_file") \o Flush
         \o Ops(st.run, "stage_file") \o Flush
         \o Ops(st.run, "send_command")

RECURSIVE ExpectedOps(_)
ExpectedOps(sts) ==
    IF sts = <<>> THEN <<>> ELSE ExpectedOpsOf(Head(sts)) \o ExpectedOps(Tail(sts))

AttemptedOps ==
    LET ops == SelectSeq(out, LAMBDA e : e.ev = "op")
    IN  [x \in DOMAIN ops |-> <<ops[x].what, ops[x].src>>]

\* C10: in a run that is no dry run a failed action aborts neither the
\* step nor the run: the actions attempted so far are the first of the
\* actions the filtered steps ask for, and when install_manifest returns
\* it returns no error and has attempted them all, whichever have failed.
C10_FailuresDoNotAbort ==
    (~dry_run /\ pc # "fatal") =>
        /\ IsPrefix(AttemptedOps, ExpectedOps(filtered_manifest.steps))
        /\ pc = "done" =>
              /\ AttemptedOps = ExpectedOps(filtered_manifest.steps)
              /\ ~result[1].err

\* A run over two steps ended in which every copy, link and run failed.
C10_Witness ==
    /\ pc = "done"
    /\ ~dry_run
    /\ all_failed
    /\ any_failed
    /\ Len(filtered_manifest.steps) = 2
    /\ Len(AttemptedOps) >= 8
    /\ result = Returned([err |-> FALSE, errors |-> TRUE])

(***************************************************************************)
(* Properties of the result and of the output of a run                     *)
(***************************************************************************)
\* C11: when no fatal error occurs install_manifest returns true exactly
\* when at least one attempted action (copy, link, stage, flush or run)
\* has failed, however many have; the process exits with 1 if it returned
\* true, with 0 if it returned false and with 2 if it returned a fatal
\* error.
C11_ReturnsTrueIffSomeActionFailed ==
    /\ (result # Unset /\ ~result[1].err) => (result[1].errors = any_failed)
    /\ exit_code # Unset =>
          /\ result # Unset
          /\ exit_code[1] = (IF result[1].err THEN 2 ELSE IF any_failed THEN 1 ELSE 0)

\* A run over SSH in which some actions failed and some did not has exited
\* with status 1.
C11_Witness ==
    /\ exit_code = Returned(1)
    /\ host # <<>>
    /\ any_failed
    /\ ~all_failed

\* The scripts of the matched steps, which a run over SSH copies
RECURSIVE ScriptsFrom(_, _)
ScriptsFrom(k, ks) ==
    IF k > Len(manifest.steps) THEN <<>>
    ELSE (IF k \in ks THEN Srcs(manifest.steps[k].run) ELSE <<>>) \o ScriptsFrom(k + 1, ks)

\* C12: in a dry run no copy, link, stage, flush, local command or remote
\* command is executed: nothing but announcements is put out, one for
\* every action of every matched step, nothing is staged, no error line is
\* printed and the run returns false, over SSH as well as locally, whatever
\* the same run would do without the flag.
C12_DryRunOnlyAnnounces ==
    dry_run =>
        /\ \A x \in DOMAIN out : out[x].ev = "announce"
        /\ tree = {}
        /\ ~any_failed
        /\ error_line = Unset
        /\ pc = "done" =>
              /\ result = Returned([err |-> FALSE, errors |-> FALSE])
              /\ Len(out) = Len(EntriesFrom(1, Matched))
                            + (IF host # <<>> THEN Len(ScriptsFrom(1, Matched)) ELSE 0)
        /\ (exit_code # Unset /\ pc = "done") => exit_code = Returned(0)

\* A dry run over SSH of two matched steps has ended and exited.
C12_Witness ==
    /\ dry_run
    /\ host # <<>>
    /\ pc = "done"
    /\ exit_code = Returned(0)
    /\ Cardinality(Matched) = 2
    /\ Len(out) >= 6

\* The announcement that belongs to an operation on an entry
AnnouncementOf(what) ==
    CASE what \in {"copy_file", "stage_file"} -> "Copy"
      [] what = "link_file" -> "Link"
      [] what \in {"run_command", "send_command"} -> "Run"

\* C13: every file operation, staging operation and command of an entry
\* comes right after the announcement of that entry and of that kind of
\* action, every announcement is the announcement of an entry, and at the
\* end of a run, dry or not, every copy, link and run entry of every
\* matched step has been announced.
C13_AnnouncedBeforeAttempted ==
    /\ \A x \in DOMAIN out :
          IF out[x].ev = "announce" THEN IsEntry(out[x])
          ELSE IsEntry(out[x]) =>
                  /\ x > 1
                  /\ out[x - 1].ev = "announce"
                  /\ out[x - 1].src = out[x].src
                  /\ out[x - 1].step = out[x].step
                  /\ out[x - 1].what = AnnouncementOf(out[x].what)
                  /\ out[x].what \notin {"run_command", "send_command"} =>
                        out[x - 1].arg = (IF host # <<>> THEN host \o <<":">> ELSE <<>>)
                                            \o out[x].arg
    /\ pc = "done" =>
          LET named == {out[x].src : x \in {y \in DOMAIN out : out[y].ev = "announce"}}
              wanted == EntriesFrom(1, Matched)
          IN  \A n \in DOMAIN wanted : wanted[n] \in named

\* A run that is no dry run has copied, linked and run entries and ended.
C13_Witness ==
    /\ pc = "done"
    /\ ~dry_run
    /\ \A what \in {"copy_file", "link_file", "run_command"} :
          \E x \in DOMAIN out : out[x].what = what

\* The list whose entries a call of execute_copies announces
ListNamed(phase) ==
    CASE phase = "copies" -> "copy" [] phase = "links" -> "link" [] phase = "scripts" -> "run"

\* C14: whenever an error line is printed the announcement printed last is
\* that of the action that failed, no other action having been announced
\* since: the announcement of the entry for a failed copy, link, stage or
\* command, and for a failed flush the announcement of an entry of the
\* list that was staged for this flush.
C14_ErrorBeneathItsAnnouncement ==
    error_line # Unset =>
        LET failure == error_line[1]
            lines == SelectSeq(out, LAMBDA e : e.ev = "announce")
        IN  /\ lines # <<>>
            /\ LET last == lines[Len(lines)]
               IN  IF failure.what = "send_staged_files"
                   THEN /\ last.what = "Copy"
                        /\ last.step = failure.step
                        /\ ListOf(last) = ListNamed(failure.list)
                   ELSE /\ last.src = failure.src
                        /\ last.what = AnnouncementOf(failure.what)

\* The entries of the step at position k of the manifest that a run over
\* SSH stages: its copy entries, its link entries and its scripts
StagedFor(k) ==
    LET st == manifest.steps[k]
    IN  {st.copy[n].src : n \in DOMAIN st.copy}
            \cup {st.link[n].src : n \in DOMAIN st.link}
            \cup {st.run[n].src : n \in DOMAIN st.run}

\* C15: over SSH every remote command of a step is sent after a flush of
\* that step which comes after the staging of every copy entry, every link
\* entry and every script of the step, and nothing is staged between that
\* flush and the command.
C15_FlushedBeforeRemoteCommands ==
    \A x \in DOMAIN out : out[x].what = "send_command" =>
        \E y \in 1..(x - 1) :
            /\ out[y].what = "send_staged_files"
            /\ out[y].step = out[x].step
            /\ \A z \in y..x : out[z].what # "stage_file"
            /\ \A src \in StagedFor(PosOf(out[x])) :
                  \E z \in 1..(y - 1) : out[z].what = "stage_file" /\ out[z].src = src

\* A run over SSH has sent the commands of a step that has copy entries,
\* link entries and scripts.
C15_Witness ==
    /\ pc = "done"
    /\ host # <<>>
    /\ \E x \in DOMAIN out :
          /\ out[x].what = "send_command"
          /\ \A list \in Lists : Len(manifest.steps[PosOf(out[x])][list]) >= 1
          /\ Cardinality(StagedFor(PosOf(out[x]))) >= 5

\* The strings of a sequence put one after the other
RECURSIVE Flatten(_)
Flatten(strs) ==
    IF strs = <<>> THEN <<>>
    ELSE Flatten(SubSeq(strs, 1, Len(strs) - 1)) \o strs[Len(strs)]

\* The tag rules of the run in their order, one space between two of them
SpacedRules ==
    Flatten([k \in DOMAIN tag_rules |->
                (IF k > 1 THEN <<" ">> ELSE <<>>) \o tag_rules[k]])

\* A postfix with every $COLIRU_RULES in it replaced by the spaced rules
Substituted(postfix) ==
    Flatten([k \in DOMAIN postfix |->
                IF postfix[k] = "$COLIRU_RULES" THEN SpacedRules ELSE <<postfix[k]>>])

\* The command of the run entry an event belongs to
CommandOf(e) ==
    LET entry == manifest.steps[PosOf(e)].run[NoOf(e)]
    IN  entry.prefix \o <<" ">> \o entry.src \o <<" ">> \o Substituted(entry.postfix)

\* C16: the command announced and executed for a run entry is its prefix,
\* a space, its src, a space and its postfix with every $COLIRU_RULES
\* replaced by the tag rules of the run joined by single spaces in their
\* order; over SSH it is announced with the host and executed in the
\* install directory.
C16_CommandOfRunEntry ==
    \A x \in DOMAIN out :
        /\ out[x].what = "Run" =>
              out[x].arg = CommandOf(out[x])
                              \o (IF host # <<>> THEN <<" on ">> \o host ELSE <<>>)
        /\ out[x].what = "run_command" => out[x].arg = CommandOf(out[x])
        /\ out[x].what = "send_command" =>
              out[x].arg = <<"cd ", ".coliru", " && ">> \o CommandOf(out[x])

\* A command with $COLIRU_RULES in its postfix was run locally under two
\* tag rules.
C16_Witness ==
    /\ Len(tag_rules) = 2
    /\ \E x \in DOMAIN out :
          /\ out[x].what = "run_command"
          /\ \E k \in 1..Len(out[x].arg) : out[x].arg[k] = "^"
          /\ "$COLIRU_RULES" \in
                Range(manifest.steps[PosOf(out[x])].run[NoOf(out[x])].postfix)

\* C17: when the creation of the staging directory or the change into the
\* base directory of the manifest fails, install_manifest returns an error
\* and no action of a step has been announced, executed, staged or
\* transferred, and none is afterwards.
C17_FatalErrorStopsTheRun ==
    /\ pc = "fatal" => (result # Unset /\ result[1].err)
    /\ (result # Unset /\ result[1].err) =>
          /\ out = <<>>
          /\ tree = {}
          /\ ~any_failed
          /\ error_line = Unset

\* The run of a manifest with two matched steps has ended with a fatal
\* error and the process has exited.
C17_Witness ==
    /\ pc = "fatal"
    /\ exit_code = Returned(2)
    /\ Cardinality(Matched) = 2
    /\ EntriesFrom(1, Matched) # <<>>

(***************************************************************************)
(* Properties of copy_file and link_file                                   *)
(***************************************************************************)
\* The entry a path leads to when a leading tilde stands for the home
\* directory
Resolved(f, path) == located(f, tilde_with_context(path, HomeDir))

\* The source and the destination lead to one entry of the file system.
SameEntry(f) ==
    /\ ~Resolved(f, source).err
    /\ ~Resolved(f, dst).err
    /\ Resolved(f, source).loc = Resolved(f, dst).loc
    /\ exists(f, Resolved(f, source).loc)

\* C18: when the source and the destination lead to the same entry of the
\* file system, however the destination is written, copy_file and
\* link_file return success and leave the file system as it was.
C18_SameFileIsNoOp ==
    (io # Unset /\ SameEntry(fs_before)) => (~io[1].err /\ fs = fs_before)

\* The source leads to a regular file.
SourceExists(f) ==
    LET s == located(f, source)
        from == followed(f, s.loc, SymlinkDepth)
    IN  ~s.err /\ exists(f, from) /\ f[from].kind = "file"

\* The destination is absent, a regular file or a symbolic link that leads
\* to nothing, and what there is of its parent directories are directories.
DestinationWritable(f) ==
    LET d == Resolved(f, dst)
    IN  /\ ~create_dir_all(f, parent(tilde_with_context(dst, HomeDir)),
                           fs_location(cwd)).err
        /\ \/ d.err
           \/ ~exists(f, d.loc)
           \/ f[d.loc].kind = "file"
           \/ f[d.loc].kind = "symlink"
                /\ ~exists(f, followed(f, d.loc, SymlinkDepth))

\* What a call that succeeded has left at the destination: a copy of the
\* source, or a symbolic link to it
Installed(before, after) ==
    LET s == followed(before, located(before, source).loc, SymlinkDepth)
        d == Resolved(after, dst)
    IN  /\ ~d.err
        /\ exists(after, d.loc)
        /\ IF call = "copy_file"
           THEN after[d.loc] = RegularFile(before[s].data)
           ELSE after[d.loc] = Symlink(s)

\* C19: when the source exists and the destination is absent, a regular
\* file or a dangling symbolic link, copy_file and link_file succeed, the
\* missing parent directories are there afterwards, the destination holds
\* the copy or the link, and a second call of the same operation succeeds
\* and leaves the file system as the first has left it.
C19_OverwritesAndIsIdempotent ==
    (calls = 1 /\ SourceExists(fs_before) /\ DestinationWritable(fs_before)) =>
        /\ ~io[1].err
        /\ Installed(fs_before, fs)
        /\ LET again == IF call = "copy_file" THEN copy_file(fs, source, dst)
                        ELSE link_file(fs, source, dst)
           IN  ~again.err /\ again.fs = fs

(***************************************************************************)
(* Properties of send_staged_files                                         *)
(***************************************************************************)
\* The transfers the last call has issued
Transfers == IF scp = <<>> THEN {} ELSE scp[Len(scp)]

\* The transfers issued for the items of a subtree
TransfersOf(dir) == {t \in Transfers : IsPrefix(dir, t.item)}

\* A subtree that was there before the flush has been handled: the
\* transfer of its items to the remote directory has been taken up, no
\* item has gone elsewhere, and unless a transfer has failed every item
\* has been sent and the subtree is gone.
Handled(dir, to) ==
    dir \in tree_before =>
        /\ read_dir(tree_before, dir) # {} => TransfersOf(dir) # {}
        /\ \A t \in TransfersOf(dir) : t.to = to /\ t.item \in read_dir(tree_before, dir)
        /\ (\A t \in TransfersOf(dir) : t.ok) =>
              /\ \A item \in read_dir(tree_before, dir) :
                    \E t \in TransfersOf(dir) : t.item = item
              /\ under(tree, dir) = {}

\* C20: a flush handles each of the two subtrees that exist: the contents
\* of home are sent to the remote ~ and those of root to the remote /,
\* and each subtree is deleted after its transfer; the root subtree is
\* handled also when the transfer of the home subtree has failed.
C20_FlushHandlesBothSubtrees ==
    flushed # Unset =>
        /\ Handled(staging_home, <<"~">>)
        /\ Handled(staging_root, <<"/">>)

\* C21: after send_staged_files has returned success neither the home nor
\* the root subtree of the staging directory exists, nor anything in them,
\* and every item they held has been sent; a call on a staging directory
\* with neither subtree succeeds and issues no transfer.
C21_SuccessLeavesNoSubtree ==
    flushed # Unset =>
        /\ ~flushed[1].err =>
              /\ under(tree, staging_home) = {}
              /\ under(tree, staging_root) = {}
              /\ \A dir \in {staging_home, staging_root} :
                    \A item \in read_dir(tree_before, dir) :
                        \E t \in Transfers : t.item = item /\ t.ok
        /\ (staging_home \notin tree_before /\ staging_root \notin tree_before) =>
              (~flushed[1].err /\ Transfers = {} /\ tree = tree_before)

\* A call has succeeded on a staging directory that held files in both
\* subtrees.
C21_Witness ==
    /\ flushed = Returned([err |-> FALSE])
    /\ \E q \in tree_before : IsPrefix(staging_home, q) /\ Len(q) > Len(staging_home)
    /\ \E q \in tree_before : IsPrefix(staging_root, q) /\ Len(q) > Len(staging_root)
    /\ \E t \in Transfers : t.to = <<"~">>
    /\ \E t \in Transfers : t.to = <<"/">>

(***************************************************************************)
(* Properties of the staging tree and of the transport during a run        *)
(***************************************************************************)
\* The flush was the last thing the run has done.
JustFlushed == out # <<>> /\ out[Len(out)].what = "send_staged_files"

\* C22: after every flush attempted during a run, whether or not its
\* transfer succeeded, the staging tree is empty: nothing that was staged
\* before the flush remains in it.
C22_TreeEmptyAfterEveryFlush ==
    JustFlushed => tree = {}

\* The calls of send_staged_files that have taken up the transfer of an item
CallsSending(item) == {n \in DOMAIN scp : \E t \in scp[n] : t.item = item}

\* The items of the two subtrees of a staging tree, each sent by one scp
ItemsOf(tr) == read_dir(tr, staging_home) \cup read_dir(tr, staging_root)

\* C23: there is no retry of a transfer: over the flushes of a run the
\* transfer of every staged item is attempted exactly once, whether it or
\* an earlier transfer has failed or not: no item is sent by two flushes,
\* and after a flush every item that was staged has been sent by one.  (That
\* every copy, link and run entry is attempted exactly once is part of C7
\* and C10.)
C23_EachTransferAttemptedOnce ==
    /\ \A n \in DOMAIN scp : \A t \in scp[n] : Cardinality(CallsSending(t.item)) = 1
    /\ flushed # Unset =>
          \A item \in ItemsOf(tree_before) : Cardinality(CallsSending(item)) = 1

(***************************************************************************)
(* Properties of resolve_path                                              *)
(***************************************************************************)
\* The path under which the remote machine receives what stage_file has
\* staged for the destination d
InstallDir == <<"~", "/", ".coliru">>

\* C24: resolve_path(src, dir) is dir, a separator and src when src is
\* relative and does not start with a tilde, and is src unchanged when src
\* starts with a tilde or is absolute; so over SSH, where the directory is
\* ~/.coliru, a relative destination d is handed to stage_file as
\* ~/.coliru/d and staged at home/.coliru/d of the staging directory, and
\* a destination with a tilde or an absolute one is handed on as written.
C24_ResolvePathByKindOfPath ==
    resolved # Unset =>
        LET dir == resolved[1].dir
            path == resolved[1].path
            to == stage_path(path, staging_dir)
        IN  /\ IsRelativeDst(dst) => path = dir \o <<"/">> \o dst
            /\ (StartsWith(dst, <<"~">>) \/ StartsWith(dst, <<"/">>)) => path = dst
            /\ (dir = InstallDir /\ IsRelativeDst(dst)) =>
                  /\ path = <<"~", "/", ".coliru", "/">> \o dst
                  /\ ~to.err
                  /\ SamePath(to.path, HomeOf(staging_dir) \o <<"/", ".coliru", "/">> \o dst)

\* resolve_path has been called with the install directory for a relative
\* destination in a directory, and has put it under the install directory.
C24_Witness ==
    /\ resolved # Unset
    /\ resolved[1].dir = InstallDir
    /\ dst = <<"s", "/", "s">>
    /\ resolved[1].path = <<"~", "/", ".coliru", "/", "s", "/", "s">>

(***************************************************************************)
(* Properties of the scripts of a run over SSH                             *)
(***************************************************************************)
\* Where the script of an event is staged: in the install directory of the
\* home subtree, under its own relative path
ScriptLocation(e) == staging_home \o << <<".coliru">> >> \o components(e.src)

\* C25: over SSH the script of every run entry is staged with its own src
\* as destination: a relative script is handed to stage_file as
\* ~/.coliru/src and is staged in the install directory of the home
\* subtree under the same relative path, before the command of its entry
\* is sent; and every remote command is the command of the entry run in
\* the install directory (cd .coliru && command).
C25_ScriptsInInstallDir ==
    (host # <<>>) =>
        /\ \A x \in DOMAIN out :
              /\ (out[x].what = "stage_file" /\ ListOf(out[x]) = "run"
                    /\ IsRelativeDst(out[x].src)) =>
                    /\ out[x].arg = <<"~", "/", ".coliru", "/">> \o out[x].src
                    /\ (x = Len(out) /\ error_line = Unset) => ScriptLocation(out[x]) \in tree
              /\ out[x].what = "send_command" =>
                    /\ out[x].arg = <<"cd ", ".coliru", " && ">> \o CommandOf(out[x])
                    /\ \E y \in 1..(x - 1) :
                          /\ out[y].what = "stage_file"
                          /\ out[y].src = out[x].src
                          /\ out[y].arg = <<"~", "/", ".coliru", "/">> \o out[x].src
              /\ out[x].what # "run_command"
        /\ (pc = "done" /\ ~dry_run) =>
              LET scripts == ScriptsFrom(1, Matched)
              IN  \A n \in DOMAIN scripts :
                      \E x \in DOMAIN out : \E y \in DOMAIN out :
                          /\ x < y
                          /\ out[x].what = "stage_file" /\ out[x].src = scripts[n]
                          /\ out[y].what = "send_command" /\ out[y].src = scripts[n]

\* A run over SSH has staged the two scripts of a step, the second with
\* success, and has sent their commands.
C25_Witness ==
    /\ host # <<>>
    /\ pc = "done"
    /\ Len(ScriptsFrom(1, Matched)) >= 2
    /\ Cardinality({x \in DOMAIN out : out[x].what = "send_command"}) >= 2
    /\ \E x \in DOMAIN out :
          /\ out[x].what = "stage_file"
          /\ ListOf(out[x]) = "run"
          /\ IsRelativeDst(out[x].src)

(***************************************************************************)
(* Properties of the progress counter                                      *)
(***************************************************************************)
\* The position of the step at position k of the manifest among the steps
\* at the positions ks
RankIn(k, ks) == Cardinality({j \in ks : j <= k})

C27_AbsoluteStagedUnderRoot ==
    staged # Unset =>
        /\ is_absolute(dst) =>
              /\ ~staged[1].err
              /\ components(staged[1].path) =
                    components(RootOf(staging_dir)) \o Tail(components(dst))
        /\ staged[1].err =>
              /\ components(join(HomeOf(staging_dir),
                                 tilde_with_context(dst, HomeOf(staging_dir)))) = <<>>
              /\ staged[1].path = <<>>

(***************************************************************************)
(* Termination                                                             *)
(***************************************************************************)
\* install_manifest has returned: a fatal error, or its flag after every
\* entry of every matched step has been attempted (in a dry run, announced).
Returns ==
    /\ result # Unset
    /\ \/ result[1].err /\ pc = "fatal"
       \/ /\ ~result[1].err
          /\ pc = "done"
          /\ LET attempts == SelectSeq(out, IsAttempt)
             IN  [x \in DOMAIN attempts |-> attempts[x].src] = EntriesFrom(1, Matched)
          /\ ~dry_run => AttemptedOps = ExpectedOps(filtered_manifest.steps)

\* C28: every run terminates: for every manifest, tag rules, host and
\* flags, when every external call returns, install_manifest eventually
\* returns a fatal error or returns after every action of every matched
\* step has been attempted, whatever the outcomes of the actions, and the
\* process exits.
C28_EveryRunTerminates == <>(Returns /\ exit_code # Unset)

\* A run over SSH of two matched steps has returned and exited after some
\* but not all of its actions have failed.
C28_Witness ==
    /\ Returns
    /\ exit_code # Unset
    /\ pc = "done"
    /\ host # <<>>
    /\ Cardinality(Matched) = 2
    /\ any_failed
    /\ ~all_failed

(***************************************************************************)
(* Local mode                                                              *)
(***************************************************************************)
\* The calls that use the remote transport
RemoteCalls == {"stage_file", "send_command"}

\* C29: in local mode (host is the empty string) no remote transport is
\* used: the staging tree is empty in every state of the run, no file is
\* staged and no command is sent over ssh, and the call of send_staged_files
\* that execute_copies makes after a copy list finds no subtree, transfers
\* nothing, and returns no error.
C29_LocalUsesNoTransport ==
    host = <<>> =>
        /\ tree = {}
        /\ \A i \in DOMAIN out : out[i].what \notin RemoteCalls
        /\ \A sent \in send_staged_files(tree) :
              sent.scp = {} /\ ~sent.err /\ sent.tree = {}

\* A local run that is no dry run has returned after it has copied a file,
\* called send_staged_files and run a command.
C29_Witness ==
    /\ host = <<>>
    /\ ~dry_run
    /\ pc = "done"
    /\ \E i, j, k \in DOMAIN out :
          /\ out[i].what = "copy_file"
          /\ out[j].what = "send_staged_files"
          /\ out[k].what = "run_command"
          /\ i < j

(***************************************************************************)
(* A local copy or link that fails                                         *)
(***************************************************************************)
\* The source leads to no file in the file system f.
SourceMissing(f) ==
    LET s == located(f, source)
    IN  s.err \/ ~exists(f, followed(f, s.loc, SymlinkDepth))

\* Where the destination leads in the file system f
DestinationIn(f) == located(f, tilde_with_context(dst, HomeDir))

\* The destination is a regular file of the file system f.
DestinationFile(f) ==
    /\ ~DestinationIn(f).err
    /\ exists(f, DestinationIn(f).loc)
    /\ f[DestinationIn(f).loc].kind = "file"

\* The last call has returned an error, its source was missing and its
\* destination was a regular file.
FailedOverFile ==
    /\ io # Unset
    /\ io[1].err
    /\ SourceMissing(fs_before)
    /\ DestinationFile(fs_before)

\* C30 as stated: when copy_file or link_file returns an error because the
\* source is missing, a destination file that existed before the call is
\* still there afterwards with its previous contents.
C30_FailedCallKeepsDestination ==
    FailedOverFile =>
        LET loc == DestinationIn(fs_before).loc
        IN  exists(fs, loc) /\ fs[loc] = fs_before[loc]

\* C30: when copy_file or link_file returns an error because the source is
\* missing, a destination file that existed before the call has been
\* removed and nothing is at the destination afterwards; every other entry
\* of the file system is as it was.
C30_FailedCallRemovesDestination ==
    FailedOverFile =>
        LET loc == DestinationIn(fs_before).loc
        IN  /\ ~exists(fs, loc)
            /\ \A l \in DOMAIN fs_before \ {loc} : exists(fs, l) /\ fs[l] = fs_before[l]

\* A first call has failed for a missing source over a destination that was
\* a regular file.
C30_Witness ==
    /\ FailedOverFile
    /\ calls = 1
    /\ fs_before[DestinationIn(fs_before).loc] = RegularFile(<<"B">>)
====
